---- MODULE Spec2Model ----
(***************************************************************************)
(* scripts/csvTosvg.py: a CSV of UV samples is turned into an SVG of       *)
(* polylines.  csv_to_svg is one straight-line function; the model follows *)
(* it statement by statement (pc is the statement about to run), and main  *)
(* is the caller that maps its outcome to the process exit status.         *)
(*                                                                         *)
(* Numbers are fixed-point: a real r of the program is the integer         *)
(* r * One, so u = 0.05 is 5 and the literal 1.0 is One.  A device         *)
(* coordinate x = u * width is therefore counted in hundredths of a pixel. *)
(* The arithmetic of the model is exact where the program's is IEEE double.*)
(***************************************************************************)
EXTENDS Integers, Sequences, FiniteSets, TLC

One == 100

(* Bounds of the model: the longest dataset of the preparation family and  *)
(* of the segmentation family of inputs.                                   *)
MaxRows == 2
MaxSegRows == 4

VARIABLES csv, opts, pc, df, points, i, current_segment, segments, svg,
          file, stdout, exc, exit_status

vars == <<csv, opts, pc, df, points, i, current_segment, segments, svg,
          file, stdout, exc, exit_status>>

-----------------------------------------------------------------------------
(* Cells of the CSV as pandas.read_csv sees them: a number, an empty cell  *)
(* (NaN), or text that is no number.                                       *)
Num(x) == [k |-> "num", x |-> x]
NaN == [k |-> "nan", x |-> 0]
Txt == [k |-> "str", x |-> 0]

Row(u, v) == [u |-> u, v |-> v]
NRow(u, v) == [u |-> Num(u), v |-> Num(v)]

(* All sequences over S of length at most n. *)
SeqsUpTo(S, n) == UNION {[1..m -> S] : m \in 0..n}

-----------------------------------------------------------------------------
(* The dataframe operations of csv_to_svg.                                 *)

(* pd.read_csv: a column holding any text that is no number is of dtype     *)
(* object, and then every cell of it that is not empty is a str.           *)
read_csv(c) ==
    [cols |-> c.cols, rows |-> c.rows,
     obj |-> {col \in c.cols :
                \E n \in DOMAIN c.rows : c.rows[n][col].k = "str"}]

(* MissingColumns that forgets to look for v. *)
MissingColumnsU(d) == "u" \notin d.cols

MissingColumns(d) == ("u" \notin d.cols) \/ ("v" \notin d.cols)

(* df["u"] - 1.0 raises TypeError on a str *)
WrapRaises(d) == "u" \in d.obj

(* SubOne as a wrap by remainder: u % 1.0 *)
SubOneMod(cell) == IF cell.k = "num" THEN Num(cell.x % One) ELSE cell

SubOne(cell) == IF cell.k = "num" THEN Num(cell.x - One) ELSE cell

WrapU(d) ==
    [d EXCEPT !.rows = [n \in DOMAIN d.rows |->
                          [d.rows[n] EXCEPT !.u = SubOne(d.rows[n].u)]]]

NotNa(r) == r.u.k # "nan" /\ r.v.k # "nan"

(* df[["u", "v"]].dropna() *)
DropNa(d) ==
    [cols |-> {"u", "v"},
     rows |-> SelectSeq([n \in DOMAIN d.rows |->
                            Row(d.rows[n].u, d.rows[n].v)], NotNa),
     obj |-> d.obj \cap {"u", "v"}]

(* a comparison of an object column with 0.0 raises TypeError at its first *)
(* str; an empty column compares to an empty mask                          *)
FilterRaises(d) == d.obj # {} /\ Len(d.rows) > 0

(* InRange with the bounds left out. *)
InRangeOpen(r) == r.u.x > 0 /\ r.u.x < One /\ r.v.x > 0 /\ r.v.x < One

InRange(r) == r.u.x >= 0 /\ r.u.x <= One /\ r.v.x >= 0 /\ r.v.x <= One

RangeFilter(d) == [d EXCEPT !.rows = SelectSeq(d.rows, InRange)]

(* KeepFirst as keep="last". *)
RECURSIVE KeepLast(_, _)
KeepLast(rows, seen) ==
    IF rows = << >> THEN << >>
    ELSE IF \E n \in DOMAIN Tail(rows) : Tail(rows)[n] = Head(rows)
    THEN KeepLast(Tail(rows), seen)
    ELSE <<Head(rows)>> \o KeepLast(Tail(rows), seen)

RECURSIVE KeepFirst(_, _)
KeepFirst(rows, seen) ==
    IF rows = << >> THEN << >>
    ELSE IF Head(rows) \in seen THEN KeepFirst(Tail(rows), seen)
    ELSE <<Head(rows)>> \o KeepFirst(Tail(rows), seen \cup {Head(rows)})

(* DropDuplicates left out. *)
DropDuplicatesNone(d) == d

(* df.drop_duplicates(): keep="first" *)
DropDuplicates(d) == [d EXCEPT !.rows = KeepFirst(d.rows, {})]

(* ToPoint with width and height swapped. *)
ToPointSwapped(r, o) ==
    IF o.flip_vertical
    THEN <<r.u.x * o.height, (One - r.v.x) * o.width>>
    ELSE <<r.u.x * o.height, r.v.x * o.width>>

(* ToPoint that ignores flip_vertical. *)
ToPointNoFlip(r, o) == <<r.u.x * o.width, r.v.x * o.height>>

ToPoint(r, o) ==
    IF o.flip_vertical
    THEN <<r.u.x * o.width, (One - r.v.x) * o.height>>
    ELSE <<r.u.x * o.width, r.v.x * o.height>>

ToPoints(d, o) == [n \in DOMAIN d.rows |-> ToPoint(d.rows[n], o)]

(* uv_distance squared, in the units of the points *)
uv_distance2(p1, p2) ==
    (p1[1] - p2[1]) * (p1[1] - p2[1]) + (p1[2] - p2[2]) * (p1[2] - p2[2])

(* Near with <= for <. *)
NearOrAt(p1, p2, o) ==
    LET t == o.max_dist * o.width
    IN  t >= 0 /\ uv_distance2(p1, p2) <= t * t

(* Near with the threshold max_dist, not max_dist * width. *)
NearUnscaled(p1, p2, o) ==
    LET t == o.max_dist
    IN  t > 0 /\ uv_distance2(p1, p2) < t * t

(* uv_distance(p1, p2) < max_dist * width: a square root is never negative *)
Near(p1, p2, o) ==
    LET t == o.max_dist * o.width
    IN  t > 0 /\ uv_distance2(p1, p2) < t * t

(* CloseInLoop without its test of the length. *)
CloseInLoopAlways(segs, cur) == Append(segs, cur)

(* lines 50-51 *)
CloseInLoop(segs, cur) == IF Len(cur) > 1 THEN Append(segs, cur) ELSE segs

(* CloseFinal with >= 1 for > 1: a last run of one point is emitted. *)
CloseFinalOne(segs, cur) == IF Len(cur) >= 1 THEN Append(segs, cur) ELSE segs

(* CloseFinal with > 2 for > 1. *)
CloseFinalThree(segs, cur) == IF Len(cur) > 2 THEN Append(segs, cur) ELSE segs

(* CloseFinal that puts the last run in front: segments.insert(0, ...) *)
CloseFinalInFront(segs, cur) == IF Len(cur) > 1 THEN <<cur>> \o segs ELSE segs

(* CloseFinal forgotten: the last run is never emitted. *)
CloseFinalNever(segs, cur) == segs

(* lines 53-54 *)
CloseFinal(segs, cur) == IF Len(cur) > 1 THEN Append(segs, cur) ELSE segs

(* LoopBody whose new run starts at the point before the gap. *)
LoopBodySharing(st, prev, p, o) ==
    IF Near(prev, p, o)
    THEN [segments |-> st.segments, current |-> Append(st.current, p)]
    ELSE [segments |-> CloseInLoop(st.segments, st.current),
          current |-> <<prev, p>>]

(* LoopBody that measures from the first point of the run. *)
LoopBodyFromFirst(st, prev, p, o) ==
    IF Near(st.current[1], p, o)
    THEN [segments |-> st.segments, current |-> Append(st.current, p)]
    ELSE [segments |-> CloseInLoop(st.segments, st.current), current |-> <<p>>]

(* lines 47-52: the body of the loop, on the pair points[i-1], points[i] *)
LoopBody(st, prev, p, o) ==
    IF Near(prev, p, o)
    THEN [segments |-> st.segments, current |-> Append(st.current, p)]
    ELSE [segments |-> CloseInLoop(st.segments, st.current), current |-> <<p>>]

-----------------------------------------------------------------------------
(* Serialization, lines 57-62.  f"{x:.2f}" of a coordinate held in          *)
(* hundredths: sign, integer part and two decimals.                        *)
Abs(x) == IF x < 0 THEN -x ELSE x

(* Fmt2 with one decimal: f"{x:.1f}" *)
Fmt1(x) == [neg |-> x < 0, int |-> Abs(x) \div One, frac |-> (Abs(x) % One) \div 10]

Fmt2(x) == [neg |-> x < 0, int |-> Abs(x) \div One, frac |-> Abs(x) % One]

Polyline(seg) ==
    [n \in DOMAIN seg |-> [x |-> Fmt2(seg[n][1]), y |-> Fmt2(seg[n][2])]]

NoSvg == [built |-> FALSE, width |-> 0, height |-> 0, polylines |-> << >>]

BuildSvg(segs, o) ==
    [built |-> TRUE, width |-> o.width, height |-> o.height,
     polylines |-> [n \in DOMAIN segs |-> Polyline(segs[n])]]

(* The file at svg_path. *)
Absent == [kind |-> "absent", doc |-> NoSvg]
Other == [kind |-> "other", doc |-> NoSvg]
Partial == [kind |-> "partial", doc |-> NoSvg]
Document(d) == [kind |-> "document", doc |-> d]

(* A line of standard output: its fixed text, the column names the text     *)
(* names, the columns it lists as found, the exception it prints.          *)
Msg(text, named, cols, e) ==
    [text |-> text, named |-> named, cols |-> cols, exc |-> e]

-----------------------------------------------------------------------------
(* csv_to_svg as a function of the dataset and the options, up to the      *)
(* write of line 65: the same statements, composed.                        *)

(* lines 44-54 *)
RECURSIVE SegmentFrom(_, _, _, _)
SegmentFrom(pts, k, st, o) ==
    IF k >= Len(pts) THEN CloseFinal(st.segments, st.current)
    ELSE SegmentFrom(pts, k + 1, LoopBody(st, pts[k], pts[k + 1], o), o)

SegmentPoints(pts, o) ==
    SegmentFrom(pts, 1, [segments |-> << >>, current |-> <<pts[1]>>], o)

Ended(how, pts, segs, doc) ==
    [end |-> how, points |-> pts, segments |-> segs, svg |-> doc]

RunResult(c, o) ==
    LET d0 == read_csv(c)
        d1 == IF o.wrap_u THEN WrapU(d0) ELSE d0
        d2 == DropNa(d1)
        d4 == DropDuplicates(RangeFilter(d2))
        pts == ToPoints(d4, o)
        segs == SegmentPoints(pts, o)
    IN  IF c.status # "ok" THEN Ended("unread", << >>, << >>, NoSvg)
        ELSE IF MissingColumns(d0) THEN Ended("columns", << >>, << >>, NoSvg)
        ELSE IF o.wrap_u /\ WrapRaises(d0)
        THEN Ended("TypeError", << >>, << >>, NoSvg)
        ELSE IF FilterRaises(d2) THEN Ended("TypeError", << >>, << >>, NoSvg)
        ELSE IF Len(pts) = 0 THEN Ended("empty", << >>, << >>, NoSvg)
        ELSE Ended("svg", pts, segs, BuildSvg(segs, o))

-----------------------------------------------------------------------------
(* Inputs.  Coordinates stay below 2^15 so that a squared distance fits    *)
(* the 32-bit integers of TLC.  Three families of datasets: rows around    *)
(* every edge of the preparation (bounds of the range, empty and           *)
(* non-numeric cells, an extra column, the wrap range); in-range rows at   *)
(* distances below, at and above the threshold, in longer datasets; and    *)
(* datasets that cannot be read or lack a column.  The worked examples of  *)
(* the documentation are added as they are.                                *)

Opt(md, w, h, flip, wrap) ==
    [max_dist |-> md, width |-> w, height |-> h,
     flip_vertical |-> flip, wrap_u |-> wrap]

Csv(cols, rows) == [status |-> "ok", cols |-> cols, rows |-> rows]

WRow(u, v, w) == [u |-> u, v |-> v, w |-> w]

PrepRows ==
    { WRow(Num(0), Num(0), Num(0)),
      WRow(Num(0), Num(0), Num(1)),
      WRow(Num(One), Num(One), Num(0)),
      WRow(Num(-1), Num(50), Num(0)),
      WRow(Num(One + 1), Num(50), Num(0)),
      WRow(Num(50), Num(-1), Num(0)),
      WRow(Num(50), Num(One + 1), Num(0)),
      WRow(NaN, Num(50), Num(0)),
      WRow(Num(50), NaN, Num(0)),
      WRow(Num(50), Num(50), NaN),
      WRow(Num(2 * One), Num(0), Num(0)),
      WRow(Num(2 * One + 1), Num(0), Num(0)),
      WRow(Txt, Num(50), Num(0)),
      WRow(Num(50), Txt, Num(0)) }

PrepOpts ==
    { Opt(5, 100, 50, flip, wrap) : flip \in BOOLEAN, wrap \in BOOLEAN }

SegRows ==
    { NRow(10, 10), NRow(12, 10), NRow(15, 10), NRow(13, 14) }

SegOpts ==
    { Opt(5, 1000, 1000, FALSE, FALSE), Opt(5, 25, 50, TRUE, FALSE),
      Opt(3, 1000, 1000, TRUE, FALSE), Opt(0, 1000, 1000, FALSE, FALSE) }

SchemaCsvs ==
    { Csv({"u"}, <<[u |-> Num(0)]>>),
      Csv({"v"}, <<[v |-> Num(0)]>>),
      Csv({"w"}, <<[w |-> Num(0)]>>),
      Csv({"u", "w"}, <<[u |-> Num(0), w |-> Num(0)]>>),
      Csv({"v", "w"}, << >>),
      [status |-> "missing", cols |-> {}, rows |-> << >>],
      [status |-> "unreadable", cols |-> {}, rows |-> << >>] }

ExampleRuns ==
    { <<Csv({"u", "v"}, <<NRow(10, 10), NRow(10, 10), NRow(20, 20)>>),
        Opt(5, 1000, 1000, FALSE, FALSE)>>,
      <<Csv({"u", "v"}, <<NRow(50, 20)>>), Opt(5, 1000, 1000, TRUE, FALSE)>>,
      <<Csv({"u", "v"}, <<NRow(50, 20)>>), Opt(5, 1000, 1000, FALSE, FALSE)>>,
      <<Csv({"u", "v"}, <<NRow(130, 20)>>), Opt(5, 1000, 1000, FALSE, TRUE)>>,
      <<Csv({"u", "v"}, <<NRow(30, 20)>>), Opt(5, 1000, 1000, FALSE, FALSE)>>,
      <<Csv({"u", "v"}, <<NRow(0, 0), NRow(1, 1), NRow(90, 90)>>),
        Opt(5, 100, 100, FALSE, FALSE)>> }

(* A run: the dataset, the options, the file at svg_path beforehand. *)
Runs ==
    {<<Csv({"u", "v", "w"}, rows), o, Absent>> :
        rows \in SeqsUpTo(PrepRows, MaxRows), o \in PrepOpts}
    \cup {<<Csv({"u", "v"}, rows), o, Absent>> :
        rows \in SeqsUpTo(SegRows, MaxSegRows), o \in SegOpts}
    \cup {<<c, Opt(5, 1000, 1000, FALSE, FALSE), f>> :
        c \in SchemaCsvs, f \in {Absent, Other}}
    \cup {<<r[1], r[2], f>> : r \in ExampleRuns, f \in {Absent, Other}}

NoDf == [cols |-> {}, rows |-> << >>, obj |-> {}]

Init ==
    /\ \E r \in Runs : csv = r[1] /\ opts = r[2] /\ file = r[3]
    /\ pc = "read_csv"
    /\ df = NoDf
    /\ points = << >>
    /\ i = 0
    /\ current_segment = << >>
    /\ segments = << >>
    /\ svg = NoSvg
    /\ stdout = << >>
    /\ exc = "none"
    /\ exit_status = -1

-----------------------------------------------------------------------------
(* csv_to_svg, statement by statement. *)

(* line 13 *)
Load ==
    /\ pc = "read_csv"
    /\ IF csv.status = "ok"
       THEN df' = read_csv(csv) /\ pc' = "check_columns" /\ exc' = exc
       ELSE /\ df' = df
            /\ pc' = "main_except"
            /\ exc' = IF csv.status = "missing"
                      THEN "FileNotFoundError" ELSE "OSError"
    /\ UNCHANGED <<csv, opts, points, i, current_segment, segments, svg,
                   file, stdout, exit_status>>

(* lines 16-18 *)
CheckColumns ==
    /\ pc = "check_columns"
    /\ IF MissingColumns(df)
       THEN /\ stdout' = Append(stdout, Msg("Error: CSV must contain 'u' and 'v' columns. Found columns:",
                         {"u", "v"}, df.cols, "none"))
            /\ pc' = "main_return"
       ELSE stdout' = stdout /\ pc' = "wrap"
    /\ UNCHANGED <<csv, opts, df, points, i, current_segment, segments, svg,
                   file, exc, exit_status>>

(* lines 21-22 *)
Wrap ==
    /\ pc = "wrap"
    /\ IF ~opts.wrap_u
       THEN df' = df /\ pc' = "dropna" /\ exc' = exc
       ELSE IF WrapRaises(df)
       THEN df' = df /\ pc' = "main_except" /\ exc' = "TypeError"
       ELSE df' = WrapU(df) /\ pc' = "dropna" /\ exc' = exc
    /\ UNCHANGED <<csv, opts, points, i, current_segment, segments, svg,
                   file, stdout, exit_status>>

(* line 24 *)
DropNaStep ==
    /\ pc = "dropna"
    /\ df' = DropNa(df)
    /\ pc' = "filter"
    /\ UNCHANGED <<csv, opts, points, i, current_segment, segments, svg,
                   file, stdout, exc, exit_status>>

(* line 27 *)
Filter ==
    /\ pc = "filter"
    /\ IF FilterRaises(df)
       THEN df' = df /\ pc' = "main_except" /\ exc' = "TypeError"
       ELSE df' = RangeFilter(df) /\ pc' = "drop_duplicates" /\ exc' = exc
    /\ UNCHANGED <<csv, opts, points, i, current_segment, segments, svg,
                   file, stdout, exit_status>>

(* DropDuplicatesStep that hands its rows to the range filter again. *)
DropDuplicatesStepBack ==
    /\ pc = "drop_duplicates"
    /\ df' = DropDuplicates(df)
    /\ pc' = "filter"
    /\ UNCHANGED <<csv, opts, points, i, current_segment, segments, svg,
                   file, stdout, exc, exit_status>>

(* line 30 *)
DropDuplicatesStep ==
    /\ pc = "drop_duplicates"
    /\ df' = DropDuplicates(df)
    /\ pc' = "to_points"
    /\ UNCHANGED <<csv, opts, points, i, current_segment, segments, svg,
                   file, stdout, exc, exit_status>>

(* lines 33-36 *)
ToPointsStep ==
    /\ pc = "to_points"
    /\ points' = ToPoints(df, opts)
    /\ pc' = "check_empty"
    /\ UNCHANGED <<csv, opts, df, i, current_segment, segments, svg,
                   file, stdout, exc, exit_status>>

(* CheckEmpty that also warns and returns on a single point. *)
CheckEmptyOne ==
    /\ pc = "check_empty"
    /\ IF Len(points) <= 1
       THEN /\ stdout' = Append(stdout, Msg("Warning: No valid data points found. SVG not created.",
                         {}, {}, "none"))
            /\ pc' = "main_return"
       ELSE stdout' = stdout /\ pc' = "seg_init"
    /\ UNCHANGED <<csv, opts, df, points, i, current_segment, segments, svg,
                   file, exc, exit_status>>

(* CheckEmpty that returns without its warning. *)
CheckEmptySilent ==
    /\ pc = "check_empty"
    /\ pc' = IF Len(points) = 0 THEN "main_return" ELSE "seg_init"
    /\ UNCHANGED <<csv, opts, df, points, i, current_segment, segments, svg,
                   file, stdout, exc, exit_status>>

(* lines 39-41 *)
CheckEmpty ==
    /\ pc = "check_empty"
    /\ IF Len(points) = 0
       THEN /\ stdout' = Append(stdout, Msg("Warning: No valid data points found. SVG not created.",
                         {}, {}, "none"))
            /\ pc' = "main_return"
       ELSE stdout' = stdout /\ pc' = "seg_init"
    /\ UNCHANGED <<csv, opts, df, points, i, current_segment, segments, svg,
                   file, exc, exit_status>>

(* lines 44-45, and the first value of the loop variable *)
SegInit ==
    /\ pc = "seg_init"
    /\ segments' = << >>
    /\ current_segment' = <<points[1]>>
    /\ i' = 1
    /\ pc' = "seg_loop"
    /\ UNCHANGED <<csv, opts, df, points, svg, file, stdout, exc, exit_status>>

(* lines 46-52: one iteration; python's points[i-1], points[i] are         *)
(* points[i], points[i+1] here                                             *)
SegStep ==
    /\ pc = "seg_loop"
    /\ i < Len(points)
    /\ LET st == LoopBody([segments |-> segments, current |-> current_segment],
                          points[i], points[i + 1], opts)
       IN  segments' = st.segments /\ current_segment' = st.current
    /\ i' = i + 1
    /\ UNCHANGED <<csv, opts, pc, df, points, svg, file, stdout, exc,
                   exit_status>>

(* lines 53-54, once range(1, len(points)) is exhausted *)
SegClose ==
    /\ pc = "seg_loop"
    /\ i >= Len(points)
    /\ segments' = CloseFinal(segments, current_segment)
    /\ pc' = "build_svg"
    /\ UNCHANGED <<csv, opts, df, points, i, current_segment, svg, file,
                   stdout, exc, exit_status>>

(* BuildSvgStep that looks at what svg_path held before the run. *)
BuildSvgStepOverOld ==
    /\ pc = "build_svg"
    /\ svg' = IF file = Other THEN BuildSvg(<< >>, opts)
              ELSE BuildSvg(segments, opts)
    /\ pc' = "write"
    /\ UNCHANGED <<csv, opts, df, points, i, current_segment, segments, file,
                   stdout, exc, exit_status>>

(* lines 57-62 *)
BuildSvgStep ==
    /\ pc = "build_svg"
    /\ svg' = BuildSvg(segments, opts)
    /\ pc' = "write"
    /\ UNCHANGED <<csv, opts, df, points, i, current_segment, segments, file,
                   stdout, exc, exit_status>>

(* line 65: ElementTree.write opens svg_path for writing, which truncates  *)
(* it, and writes the tree to it piece by piece.  The open can fail, and   *)
(* so can any later write.  The open of a path in a directory that does    *)
(* not exist fails with FileNotFoundError, a subclass of OSError.          *)
WriteDone ==
    /\ pc = "write"
    /\ file' = Document(svg)
    /\ pc' = "print_written"
    /\ exc' = exc

WriteRefused ==
    /\ pc = "write"
    /\ file' = file
    /\ pc' = "main_except"
    /\ exc' = "OSError"

WriteBroken ==
    /\ pc = "write"
    /\ file' = Partial
    /\ pc' = "main_except"
    /\ exc' = "OSError"

WriteNotFound ==
    /\ pc = "write"
    /\ file' = file
    /\ pc' = "main_except"
    /\ exc' = "FileNotFoundError"

Write ==
    /\ (WriteDone \/ WriteRefused \/ WriteBroken \/ WriteNotFound)
    /\ UNCHANGED <<csv, opts, df, points, i, current_segment, segments, svg,
                   stdout, exit_status>>

(* line 66 *)
PrintWritten ==
    /\ pc = "print_written"
    /\ stdout' = Append(stdout, Msg("SVG written to", {}, {}, "none"))
    /\ pc' = "main_return"
    /\ UNCHANGED <<csv, opts, df, points, i, current_segment, segments, svg,
                   file, exc, exit_status>>

-----------------------------------------------------------------------------
(* main, lines 89-96: the call returned, or raised. *)

(* MainReturn of a main that takes a return without a document written    *)
(* for a failure.                                                          *)
MainReturnChecked ==
    /\ pc = "main_return"
    /\ exit_status' = IF file.kind = "document" THEN 0 ELSE 1
    /\ pc' = "exited"
    /\ UNCHANGED <<csv, opts, df, points, i, current_segment, segments, svg,
                   file, stdout, exc>>

MainReturn ==
    /\ pc = "main_return"
    /\ exit_status' = 0
    /\ pc' = "exited"
    /\ UNCHANGED <<csv, opts, df, points, i, current_segment, segments, svg,
                   file, stdout, exc>>

MainExcept ==
    /\ pc = "main_except"
    /\ stdout' = Append(stdout,
                    IF exc = "FileNotFoundError"
                    THEN Msg("Error: Input file not found.", {}, {}, exc)
                    ELSE Msg("Error:", {}, {}, exc))
    /\ exit_status' = 1
    /\ pc' = "exited"
    /\ UNCHANGED <<csv, opts, df, points, i, current_segment, segments, svg,
                   file, exc>>

Next ==
    \/ Load
    \/ CheckColumns
    \/ Wrap
    \/ DropNaStep
    \/ Filter
    \/ DropDuplicatesStep
    \/ ToPointsStep
    \/ CheckEmpty
    \/ SegInit
    \/ SegStep
    \/ SegClose
    \/ BuildSvgStep
    \/ Write
    \/ PrintWritten
    \/ MainReturn
    \/ MainExcept

Spec == Init /\ [][Next]_vars

-----------------------------------------------------------------------------
(* Properties.  The statements below are written without the operators of  *)
(* the program: their own threshold test, their own account of the runs.   *)

(* The ascending sequence of a finite set of numbers. *)
RECURSIVE Ascending(_)
Ascending(S) ==
    IF S = {} THEN << >>
    ELSE LET m == CHOOSE x \in S : \A y \in S : x <= y
         IN  <<m>> \o Ascending(S \ {m})

Threshold(o) == o.max_dist * o.width

(* Euclidean distance of p and q strictly below max_dist * width *)
Closer(p, q, o) ==
    /\ Threshold(o) > 0
    /\ uv_distance2(p, q) < Threshold(o) * Threshold(o)

(* The segmentation is over, and it ran. *)
SegDone ==
    /\ pc \in {"build_svg", "write", "print_written", "main_return",
               "main_except", "exited"}
    /\ points # << >>

(* The indices at which the sequence is split, the runs they delimit. *)
Breaks(pts, o) == {k \in 2..Len(pts) : ~Closer(pts[k - 1], pts[k], o)}

RunEnd(pts, o, s) ==
    LET later == {b \in Breaks(pts, o) : b > s}
    IN  IF later = {} THEN Len(pts)
        ELSE (CHOOSE b \in later : \A c \in later : b <= c) - 1

KeptStarts(pts, o) ==
    {s \in {1} \cup Breaks(pts, o) : RunEnd(pts, o, s) - s + 1 >= 2}

RefSegments(pts, o) ==
    LET starts == Ascending(KeptStarts(pts, o))
    IN  [n \in DOMAIN starts |-> SubSeq(pts, starts[n], RunEnd(pts, o, starts[n]))]

(* C1: no Segment, and no polyline of the document built or written, has   *)
(* fewer than 2 points, at any moment of any run.                          *)
C1_SegmentsHaveTwoPoints ==
    /\ \A n \in DOMAIN segments : Len(segments[n]) >= 2
    /\ \A n \in DOMAIN svg.polylines : Len(svg.polylines[n]) >= 2
    /\ \A n \in DOMAIN file.doc.polylines : Len(file.doc.polylines[n]) >= 2

(* C1 witness: a document was written after a run of one point was closed  *)
(* inside the loop and the final run was a single point too, next to an    *)
(* emitted Segment.                                                        *)
C1_Witness ==
    /\ pc = "exited"
    /\ file.kind = "document"
    /\ segments # << >>
    /\ Len(points) \in Breaks(points, opts)
    /\ \E k \in Breaks(points, opts) :
          k < Len(points) /\ (k + 1) \in Breaks(points, opts)

(* C2: consecutive points of an emitted Segment are strictly closer than   *)
(* max_dist * width.                                                       *)
C2_ConsecutiveStrictlyCloser ==
    \A n \in DOMAIN segments :
        \A k \in 1..(Len(segments[n]) - 1) :
            Closer(segments[n][k], segments[n][k + 1], opts)

(* C2 witness: a run that emitted a Segment although two consecutive       *)
(* prepared points were exactly max_dist * width apart.                    *)
C2_Witness ==
    /\ SegDone
    /\ segments # << >>
    /\ Threshold(opts) > 0
    /\ \E k \in 1..(Len(points) - 1) :
          uv_distance2(points[k], points[k + 1])
             = Threshold(opts) * Threshold(opts)

(* C3: the Segments are the maximal runs of length >= 2 of the prepared    *)
(* sequence split where consecutive points are not closer than the         *)
(* threshold, in order; each Segment is bordered by such a gap or by an    *)
(* end of the sequence.                                                    *)
C3_SegmentsAreMaximalRuns ==
    SegDone =>
        /\ segments = RefSegments(points, opts)
        /\ \A n \in DOMAIN segments :
              \E s \in 1..Len(points) :
                  LET e == s + Len(segments[n]) - 1
                  IN  /\ e <= Len(points)
                      /\ SubSeq(points, s, e) = segments[n]
                      /\ s > 1 => ~Closer(points[s - 1], points[s], opts)
                      /\ e < Len(points)
                            => ~Closer(points[e], points[e + 1], opts)

(* C3 witness: four prepared points of which the two in the middle are the *)
(* only Segment.                                                           *)
C3_Witness ==
    /\ pc = "exited"
    /\ Len(points) = 4
    /\ segments = <<SubSeq(points, 2, 3)>>

-----------------------------------------------------------------------------
(* The samples of the dataset, told from the CSV itself. *)

Numeric(c, n) == c.rows[n].u.k = "num" /\ c.rows[n].v.k = "num"

(* the (u, v) of row n after the optional wrap *)
Sample(c, o, n) ==
    NRow(IF o.wrap_u THEN c.rows[n].u.x - One ELSE c.rows[n].u.x,
         c.rows[n].v.x)

InUnitSquare(r) ==
    /\ 0 <= r.u.x /\ r.u.x <= One
    /\ 0 <= r.v.x /\ r.v.x <= One

Retained(c, o) ==
    {n \in DOMAIN c.rows : Numeric(c, n) /\ InUnitSquare(Sample(c, o, n))}

FirstOccurrences(c, o) ==
    {n \in Retained(c, o) :
        \A m \in Retained(c, o) : m < n => Sample(c, o, m) # Sample(c, o, n)}

SamplesAt(c, o, S) ==
    LET idx == Ascending(S) IN [k \in DOMAIN idx |-> Sample(c, o, idx[k])]

(* x = u * width; y = (1 - v) * height with the flip, v * height without *)
Device(r, o) ==
    <<r.u.x * o.width,
      IF o.flip_vertical THEN (One - r.v.x) * o.height ELSE r.v.x * o.height>>

(* The rows have been de-duplicated; the points have been computed. *)
Deduped ==
    /\ csv.status = "ok"
    /\ {"u", "v"} \subseteq csv.cols
    /\ exc # "TypeError"
    /\ pc \notin {"read_csv", "check_columns", "wrap", "dropna", "filter",
                  "drop_duplicates"}

Mapped == Deduped /\ pc # "to_points"

(* C4: after de-duplication the rows are the first occurrences of the      *)
(* distinct retained post-wrap (u, v) pairs, in the order of the source    *)
(* rows, and there is one Point per distinct pair.                         *)
C4_DuplicatesCollapse ==
    /\ Deduped =>
          /\ df.rows = SamplesAt(csv, opts, FirstOccurrences(csv, opts))
          /\ \A a, b \in DOMAIN df.rows : a # b => df.rows[a] # df.rows[b]
    /\ Mapped =>
          Len(points) = Cardinality({Sample(csv, opts, n) :
                                        n \in Retained(csv, opts)})

(* C4 witness: a run that ended with two points or more from rows in which *)
(* a pair came back after a different pair.                                *)
C4_Witness ==
    /\ pc = "exited"
    /\ Mapped
    /\ Len(points) >= 2
    /\ \E a, b, c \in Retained(csv, opts) :
          /\ a < b /\ b < c
          /\ Sample(csv, opts, a) = Sample(csv, opts, c)
          /\ Sample(csv, opts, a) # Sample(csv, opts, b)

C5_Input ==
    /\ csv = Csv({"u", "v"}, <<NRow(10, 10), NRow(10, 10), NRow(20, 20)>>)
    /\ opts = Opt(5, 1000, 1000, FALSE, FALSE)

(* C5 as stated: rows (0.1,0.1), (0.1,0.1), (0.2,0.2) with max_dist 0.05   *)
(* on the default canvas yield exactly one Segment of 2 points.            *)
C5_OneSegmentOfTwo ==
    (C5_Input /\ SegDone) => Len(segments) = 1 /\ Len(segments[1]) = 2

(* C5 amended: these rows yield 2 Points, the duplicate collapsing, and no *)
(* Segment: the 2 points are not closer than max_dist * width, and the     *)
(* document has no polyline.                                               *)
C5_TwoPointsNoSegment ==
    (C5_Input /\ SegDone) =>
        /\ Len(points) = 2
        /\ ~Closer(points[1], points[2], opts)
        /\ segments = << >>
        /\ svg.built => svg.polylines = << >>

C5_Witness == C5_Input /\ pc = "exited" /\ file.kind = "document"

(* C6: the range filter keeps exactly the samples with 0 <= u <= 1 and     *)
(* 0 <= v <= 1 after the wrap, and every Point and every vertex of the     *)
(* document comes from such a sample.                                      *)
C6_OnlyUnitSquareSamples ==
    /\ (pc = "drop_duplicates" /\ exc = "none") =>
          df.rows = SamplesAt(csv, opts, Retained(csv, opts))
    /\ Mapped =>
          LET kept == {Device(Sample(csv, opts, n), opts) :
                          n \in Retained(csv, opts)}
              vertices == {[x |-> Fmt2(p[1]), y |-> Fmt2(p[2])] : p \in kept}
          IN  /\ \A k \in DOMAIN points : points[k] \in kept
              /\ \A a \in DOMAIN svg.polylines :
                    \A k \in DOMAIN svg.polylines[a] :
                        svg.polylines[a][k] \in vertices
              /\ \A a \in DOMAIN file.doc.polylines :
                    \A k \in DOMAIN file.doc.polylines[a] :
                        file.doc.polylines[a][k] \in vertices

(* C6 witness: the filter kept a sample on the bounds 1.0, 1.0 and dropped *)
(* a numeric row.                                                          *)
C6_Witness ==
    /\ pc = "drop_duplicates"
    /\ \E k \in DOMAIN df.rows : df.rows[k].u.x = One /\ df.rows[k].v.x = One
    /\ \E n \in DOMAIN csv.rows :
          Numeric(csv, n) /\ n \notin Retained(csv, opts)

(* C7: every Point has 0 <= x <= width and 0 <= y <= height.               *)
C7_PointsOnCanvas ==
    \A k \in DOMAIN points :
        /\ 0 <= points[k][1] /\ points[k][1] <= opts.width * One
        /\ 0 <= points[k][2] /\ points[k][2] <= opts.height * One

(* C7 witness: with the wrap and the flip set, a Point in the corner       *)
(* x = width, y = height of the canvas.                                    *)
C7_Witness ==
    /\ pc = "exited"
    /\ opts.wrap_u /\ opts.flip_vertical
    /\ \E k \in DOMAIN points :
          points[k] = <<opts.width * One, opts.height * One>>

C8_Example == csv.rows = <<NRow(50, 20)>> /\ opts.height = 1000

(* C8: x = u * width, y = (1 - v) * height with flip_vertical and          *)
(* v * height without, one Point per retained sample in order; the other   *)
(* setting of the flip gives as many points with the same x, mirrored in   *)
(* y; (0.5, 0.2) at height 1000 gives y = 800 with the flip, 200 without.  *)
C8_DeviceMapping ==
    Mapped =>
        /\ Len(points) = Len(df.rows)
        /\ \A k \in DOMAIN points : points[k] = Device(df.rows[k], opts)
        /\ LET other == ToPoints(df, [opts EXCEPT !.flip_vertical = ~@])
           IN  /\ Len(other) = Len(points)
               /\ \A k \in DOMAIN points :
                     /\ other[k][1] = points[k][1]
                     /\ other[k][2] + points[k][2] = opts.height * One
        /\ C8_Example =>
              points[1][2] = IF opts.flip_vertical THEN 800 * One ELSE 200 * One

C8_Witness ==
    /\ pc = "exited"
    /\ C8_Example
    /\ opts.flip_vertical
    /\ points = <<<<500 * One, 800 * One>>>>

(* The dataset with every u replaced by u - 1. *)
ShiftU(c) ==
    [c EXCEPT !.rows = [n \in DOMAIN c.rows |->
        [c.rows[n] EXCEPT !.u = IF @.k = "num" THEN Num(@.x - One) ELSE @]]]

NoTextU(c) == \A n \in DOMAIN c.rows : c.rows[n].u.k # "str"

(* C9: a run with wrap_u on a dataset whose u are numbers or empty ends as *)
(* the run without wrap_u on the dataset with every u replaced by u - 1:   *)
(* the same end, the same points, segments and document.                   *)
C9_WrapIsShift ==
    (opts.wrap_u /\ csv.status = "ok" /\ {"u", "v"} \subseteq csv.cols
        /\ NoTextU(csv)) =>
        LET r == RunResult(ShiftU(csv), [opts EXCEPT !.wrap_u = FALSE])
        IN  /\ pc = "write" =>
                  r = Ended("svg", points, segments, svg)
            /\ (pc = "main_except" /\ exc = "TypeError") =>
                  r.end = "TypeError"
            /\ (pc = "main_return" /\ points = << >>) => r.end = "empty"

(* C9 witness: u = 1.3 with the wrap gave the point that u = 0.3 gives     *)
(* without it.                                                             *)
C9_Witness ==
    /\ pc = "write"
    /\ opts.wrap_u
    /\ csv.rows = <<NRow(130, 20)>>
    /\ points = RunResult(Csv({"u", "v"}, <<NRow(30, 20)>>),
                          [opts EXCEPT !.wrap_u = FALSE]).points

(* C10: a dataset without column u or v makes csv_to_svg fail: it raises,  *)
(* the process ends with a failure status, and the caller is told the      *)
(* missing columns and the columns present.                                *)
C10_SchemaErrorReported ==
    (pc = "exited" /\ csv.status = "ok" /\ ~({"u", "v"} \subseteq csv.cols)) =>
        /\ exc # "none"
        /\ exit_status # 0
        /\ \E n \in DOMAIN stdout :
              /\ stdout[n].named = {"u", "v"} \ csv.cols
              /\ stdout[n].cols = csv.cols

-----------------------------------------------------------------------------
(* The dataset was read and lacks column u or column v. *)
SchemaViolation == csv.status = "ok" /\ ~({"u", "v"} \subseteq csv.cols)

(* C11: on a schema violation nothing is written and no later step runs:   *)
(* the file at svg_path stays as it was, absent or with its earlier        *)
(* content, no point, segment or document is ever built, and control goes  *)
(* from the column check straight back to main.                            *)
C11_NoOutputOnSchemaViolation ==
    SchemaViolation =>
        /\ file \in {Absent, Other}
        /\ svg = NoSvg
        /\ points = << >> /\ segments = << >> /\ current_segment = << >>
        /\ pc \in {"read_csv", "check_columns", "main_return", "exited"}
        /\ \A n \in DOMAIN stdout : stdout[n].text # "SVG written to"

(* C11 witness: the run on a dataset without column v ended with the file  *)
(* that was at svg_path before still there.                                *)
C11_Witness ==
    /\ pc = "exited"
    /\ csv.cols = {"u", "w"}
    /\ file = Other

(* The dataset without the rows whose u or v is empty or no number. *)
NumericRow(r) == r.u.k = "num" /\ r.v.k = "num"

Clean(c) == [c EXCEPT !.rows = SelectSeq(c.rows, NumericRow)]

(* C12: rows whose u or v is missing or non-numeric are dropped silently:  *)
(* the run does not fail, and it ends as the run on the dataset without    *)
(* those rows, with the same points, segments and document.                *)
C12_BadRowsDroppedSilently ==
    (csv.status = "ok" /\ {"u", "v"} \subseteq csv.cols) =>
        LET r == RunResult(Clean(csv), opts)
        IN  /\ exc # "TypeError"
            /\ pc = "write" => r = Ended("svg", points, segments, svg)
            /\ (pc = "main_return" /\ points = << >>) => r.end = "empty"

(* The part of C12 that the program keeps: the same, for datasets whose    *)
(* bad cells are all empty cells.                                          *)
C12_EmptyCellsDropped ==
    (\A n \in DOMAIN csv.rows :
        "u" \in DOMAIN csv.rows[n] /\ "v" \in DOMAIN csv.rows[n]
        /\ csv.rows[n].u.k # "str" /\ csv.rows[n].v.k # "str")
    => C12_BadRowsDroppedSilently

(* No row of the dataset holds text, and no sample is retained. *)
NoText(c) ==
    \A n \in DOMAIN c.rows : c.rows[n].u.k # "str" /\ c.rows[n].v.k # "str"

ZeroPointsRemain ==
    /\ csv.status = "ok"
    /\ {"u", "v"} \subseteq csv.cols
    /\ NoText(csv)
    /\ Retained(csv, opts) = {}

(* C13: when zero points remain after filtering, csv_to_svg does not       *)
(* raise; it prints its warning, builds no polyline, writes no document,   *)
(* and goes back to main, which ends with status 0.                        *)
C13_EmptyResultIsWarning ==
    ZeroPointsRemain =>
        /\ exc = "none"
        /\ svg = NoSvg /\ segments = << >>
        /\ file \in {Absent, Other}
        /\ pc \notin {"seg_init", "seg_loop", "build_svg", "write",
                      "print_written", "main_except"}
        /\ pc \in {"main_return", "exited"} =>
              /\ Len(stdout) = 1
              /\ stdout[1].text
                    = "Warning: No valid data points found. SVG not created."
        /\ pc = "exited" => exit_status = 0

(* C13 witness: a run on rows that are all out of range or empty ended     *)
(* after the warning.                                                      *)
C13_Witness ==
    /\ pc = "exited"
    /\ ZeroPointsRemain
    /\ Len(csv.rows) = 2
    /\ ~Numeric(csv, 1)
    /\ Numeric(csv, 2)
    /\ Len(stdout) = 1

-----------------------------------------------------------------------------
(* The runs of a list of runs, end to end. *)
RECURSIVE Flatten(_)
Flatten(ss) == IF ss = << >> THEN << >> ELSE Head(ss) \o Flatten(Tail(ss))

(* a is b with some of its elements left out *)
RECURSIVE IsSubsequence(_, _)
IsSubsequence(a, b) ==
    IF a = << >> THEN TRUE
    ELSE IF b = << >> THEN FALSE
    ELSE IF Head(a) = Head(b) THEN IsSubsequence(Tail(a), Tail(b))
    ELSE IsSubsequence(a, Tail(b))

Vertex(p) == [x |-> Fmt2(p[1]), y |-> Fmt2(p[2])]

(* C14: the points are in the order of the first occurrences of their      *)
(* samples in the dataset; the Segments end to end are a subsequence of    *)
(* the points; and the polylines of the document, end to end, are the      *)
(* vertices of the Segments end to end.                                    *)
C14_OrderPreserved ==
    SegDone =>
        LET first == SamplesAt(csv, opts, FirstOccurrences(csv, opts))
            flat == Flatten(segments)
        IN  /\ points = [k \in DOMAIN first |-> Device(first[k], opts)]
            /\ IsSubsequence(flat, points)
            /\ svg.built =>
                  Flatten(svg.polylines)
                     = [k \in DOMAIN flat |-> Vertex(flat[k])]
            /\ file.kind = "document" => file.doc = svg

(* C14 witness: a document of two polylines was written from points that   *)
(* are not in ascending order of x.                                        *)
C14_Witness ==
    /\ pc = "exited"
    /\ file.kind = "document"
    /\ Len(segments) = 2
    /\ \E k \in 1..(Len(points) - 1) : points[k][1] > points[k + 1][1]

OtherThresholds(o) ==
    {[o EXCEPT !.max_dist = md, !.width = w] :
        md \in {-5, 0, 5, 10 * One}, w \in {1, 100}}

(* C15: no point or one point yields no Segment and no polyline, whatever  *)
(* max_dist and width are.                                                 *)
C15_FewPointsNoSegment ==
    (Mapped /\ Len(points) <= 1) =>
        /\ segments = << >>
        /\ svg.polylines = << >>
        /\ file.doc.polylines = << >>
        /\ (pc = "build_svg" /\ Len(points) = 1) =>
              \A o \in OtherThresholds(opts) : SegmentPoints(points, o) = << >>

(* C15 witness: a run on one point wrote its document. *)
C15_Witness ==
    /\ pc = "exited"
    /\ Len(points) = 1
    /\ file.kind = "document"
    /\ svg.built

(* Every two points of the sequence are closer than the threshold. *)
AllClose(pts, o) ==
    \A a, b \in DOMAIN pts : a # b => Closer(pts[a], pts[b], o)

(* C16: two points or more that are all within the threshold of each other *)
(* yield exactly one Segment, the whole sequence in order.                 *)
C16_AllCloseOneSegment ==
    (SegDone /\ Len(points) >= 2 /\ AllClose(points, opts)) =>
        segments = <<points>>

(* C16 witness: three points, all within the threshold of each other, made *)
(* one Segment.                                                            *)
C16_Witness ==
    /\ pc = "exited"
    /\ Len(points) = 3
    /\ AllClose(points, opts)
    /\ segments = <<points>>

(* C17: the segmenter run on the points of a Segment it produced, with the *)
(* same max_dist and width, yields that Segment and nothing else.          *)
C17_SegmentationIdempotent ==
    SegDone =>
        \A n \in DOMAIN segments :
            SegmentPoints(segments[n], opts) = <<segments[n]>>

(* C17 witness: a run produced a Segment of 2 points closed inside the     *)
(* loop and a Segment of 2 points closed after it.                         *)
C17_Witness ==
    /\ pc = "exited"
    /\ Len(points) = 4
    /\ Len(segments) = 2
    /\ SegmentPoints(segments[1], opts) = <<segments[1]>>

-----------------------------------------------------------------------------
(* The samples and the options of the end-to-end example. *)
EndToEndExample ==
    /\ csv = Csv({"u", "v"}, <<NRow(0, 0), NRow(1, 1), NRow(90, 90)>>)
    /\ opts = Opt(5, 100, 100, FALSE, FALSE)

(* x.yy as sign, integer part and two decimals *)
Decimal(int, frac) == [neg |-> FALSE, int |-> int, frac |-> frac]

(* C18: the example yields three points and a document of exactly one      *)
(* polyline, whose 2 vertices are the first two points 0.00,0.00 and       *)
(* 1.00,1.00; the third point 90.00,90.00 is in no polyline.  The run      *)
(* reaches the write, and the document written is that one.                *)
C18_EndToEndExample ==
    EndToEndExample =>
        /\ exc \in {"none", "OSError", "FileNotFoundError"}
        /\ pc \in {"write", "print_written", "main_return", "main_except",
                   "exited"} =>
              /\ Len(points) = 3
              /\ svg.built
              /\ svg.polylines =
                    << << [x |-> Decimal(0, 0), y |-> Decimal(0, 0)],
                          [x |-> Decimal(1, 0), y |-> Decimal(1, 0)] >> >>
              /\ \A n \in DOMAIN svg.polylines :
                    \A k \in DOMAIN svg.polylines[n] :
                        svg.polylines[n][k].x # Decimal(90, 0)
        /\ (pc = "exited" /\ exc = "none") => file = Document(svg)

(* C18 witness: the example's run ended with its document written. *)
C18_Witness ==
    /\ EndToEndExample
    /\ pc = "exited"
    /\ file.kind = "document"
    /\ Len(file.doc.polylines) = 1

(* The number a decimal text denotes, in hundredths. *)
Value(d) == (IF d.neg THEN -1 ELSE 1) * (d.int * One + d.frac)

(* A decimal text with exactly 2 decimals. *)
TwoDecimals(d) == d.int >= 0 /\ d.frac \in 0..(One - 1)

(* C19: the document has the width and height of the options and one       *)
(* polyline per Segment, in the order of the Segments; the vertices of     *)
(* the n-th polyline are the points of the n-th Segment in order, x and y  *)
(* each with 2 decimals; there are as many polylines as runs of 2 points   *)
(* or more, none for a run of 1 point; the document written is that one.   *)
(* The single space between vertices is the adjacency of the sequence.     *)
C19_DocumentMirrorsSegments ==
    svg.built =>
        /\ svg.width = opts.width
        /\ svg.height = opts.height
        /\ Len(svg.polylines) = Len(segments)
        /\ Len(svg.polylines) = Cardinality(KeptStarts(points, opts))
        /\ \A n \in DOMAIN segments :
              /\ Len(svg.polylines[n]) = Len(segments[n])
              /\ \A k \in DOMAIN segments[n] :
                    LET vx == svg.polylines[n][k] IN
                    /\ TwoDecimals(vx.x) /\ TwoDecimals(vx.y)
                    /\ Value(vx.x) = segments[n][k][1]
                    /\ Value(vx.y) = segments[n][k][2]
        /\ file.kind = "document" => file.doc = svg

(* C19 witness: a document was written with a polyline that has a vertex   *)
(* with decimals other than 00, from points one of which is in no Segment. *)
C19_Witness ==
    /\ pc = "exited"
    /\ file.kind = "document"
    /\ Len(Flatten(segments)) < Len(points)
    /\ \E n \in DOMAIN file.doc.polylines :
          \E k \in DOMAIN file.doc.polylines[n] :
              file.doc.polylines[n][k].x.frac \notin {0, 50}

(* C20: the file at svg_path is the one that was there before the run, or  *)
(* the complete document, never a part of one; and a write that failed     *)
(* ends the process with the error printed and a status other than 0.      *)
C20_WriteAllOrNothing ==
    /\ \/ file \in {Absent, Other}
       \/ svg.built /\ file = Document(svg)
    /\ (pc = "exited" /\ exc = "OSError") =>
          /\ exit_status = 1
          /\ stdout[Len(stdout)].text = "Error:"

(* The part of C20 that holds: a failed write is surfaced. *)
C20_WriteFailureSurfaced ==
    (pc = "exited" /\ exc = "OSError") =>
        /\ exit_status = 1
        /\ stdout # << >>
        /\ stdout[Len(stdout)].text = "Error:"
        /\ \A n \in DOMAIN stdout : stdout[n].text # "SVG written to"

-----------------------------------------------------------------------------
(* The dataset could not be read; the write of the document failed. *)
ReadFailed == csv.status # "ok"

WriteFailed == csv.status = "ok" /\ svg.built /\ exc # "none"

(* C21: a failure to read the dataset or to write the document ends the    *)
(* call with the exception of its cause, is never followed by the line of  *)
(* success, and ends the process with status 1 after a last line of output *)
(* that reports that failure: the line about the input file only when the  *)
(* input file is the one that was not found.                               *)
C21_IOFailureReported ==
    /\ ReadFailed => /\ pc \in {"read_csv", "main_except", "exited"}
                     /\ pc # "read_csv" =>
                           exc = (IF csv.status = "missing"
                                  THEN "FileNotFoundError" ELSE "OSError")
    /\ (pc = "exited" /\ (ReadFailed \/ WriteFailed)) =>
          /\ exit_status = 1
          /\ stdout # << >>
          /\ \A n \in DOMAIN stdout : stdout[n].text # "SVG written to"
          /\ LET last == stdout[Len(stdout)] IN
             /\ last.exc = exc
             /\ last.text \in {"Error:", "Error: Input file not found."}
             /\ last.text = "Error: Input file not found." =>
                   csv.status = "missing"

(* The part of C21 that holds: the failure reaches main, which prints a    *)
(* line that starts with Error and exits with status 1.                    *)
C21_IOFailureIsFatal ==
    (pc = "exited" /\ (ReadFailed \/ WriteFailed)) =>
        /\ exit_status = 1
        /\ stdout # << >>
        /\ stdout[Len(stdout)].text \in {"Error:", "Error: Input file not found."}
        /\ \A n \in DOMAIN stdout : stdout[n].text # "SVG written to"

-----------------------------------------------------------------------------
(* How a finished run is classified, from what it left behind. *)
Classification ==
    IF exc # "none" THEN "failure"
    ELSE IF \E n \in DOMAIN stdout : stdout[n].text = "SVG written to"
    THEN "success"
    ELSE IF points = << >> /\ ~MissingColumns(df) THEN "empty"
    ELSE "columns"

(* C22: the outcome of a run is a function of the dataset and the options  *)
(* alone, the same whatever svg_path held before: when the run comes to    *)
(* the write, its points, Segments and document are those of RunResult;    *)
(* when it has ended, its classification is that of RunResult, a failure   *)
(* of the write apart, and the document written is that of RunResult.      *)
C22_Deterministic ==
    /\ pc = "write" =>
          RunResult(csv, opts) = Ended("svg", points, segments, svg)
    /\ pc = "exited" =>
          LET r == RunResult(csv, opts) IN
          /\ r.end \in {"unread", "TypeError"} <=>
                (Classification = "failure" /\ ~svg.built)
          /\ r.end = "columns" <=> Classification = "columns"
          /\ r.end = "empty" <=> Classification = "empty"
          /\ r.end = "svg" <=> svg.built
          /\ r.end = "svg" =>
                /\ Classification \in {"success", "failure"}
                /\ r = Ended("svg", points, segments, svg)
                /\ Classification = "success" => file = Document(r.svg)
          /\ r.end # "svg" => file \in {Absent, Other}

(* C22 witness: a run with a Segment comes to the write with another file  *)
(* at svg_path.                                                            *)
C22_Witness ==
    /\ pc = "write"
    /\ file = Other
    /\ Len(segments) = 1
    /\ svg.polylines # << >>

-----------------------------------------------------------------------------
(* The index ranges of the points that are grouped into Segments. *)
KeptRanges(pts, o) == {<<s, RunEnd(pts, o, s)>> : s \in KeptStarts(pts, o)}

(* The partition of the samples under another canvas, same max_dist. *)
PartitionOn(w, h) ==
    LET o2 == [opts EXCEPT !.width = w, !.height = h]
        r == RunResult(csv, o2)
    IN  [n \in DOMAIN r.segments |->
            CHOOSE rg \in KeptRanges(r.points, o2) :
                r.segments[n] = SubSeq(r.points, rg[1], rg[2])]

PartitionHere ==
    [n \in DOMAIN segments |->
        CHOOSE rg \in KeptRanges(points, opts) :
            segments[n] = SubSeq(points, rg[1], rg[2])]

(* Datasets whose samples lie close together, so that squared distances    *)
(* stay small on every canvas below.                                       *)
CloseSamples == \A k \in DOMAIN csv.rows : csv.rows[k] \in SegRows

Canvases == {<<1000, 1000>>, <<100, 100>>, <<25, 50>>, <<50, 25>>, <<1, 1>>}

(* C23: the index ranges that the Segments cover are the same on every     *)
(* canvas, for the same samples and the same max_dist.                     *)
C23_ResolutionIndependent ==
    (pc = "build_svg" /\ CloseSamples) =>
        \A c \in Canvases : PartitionOn(c[1], c[2]) = PartitionHere

(* The part of C23 that holds: canvases of equal width and height.         *)
C23_SquareCanvasIndependent ==
    (pc = "build_svg" /\ CloseSamples /\ opts.width = opts.height) =>
        \A c \in Canvases : c[1] = c[2] => PartitionOn(c[1], c[2]) = PartitionHere

-----------------------------------------------------------------------------
(* The rows with numbers for u and v, raw u in [1, 2] and v in [0, 1]. *)
WrapKept(c) ==
    {n \in DOMAIN c.rows :
        /\ c.rows[n].u.k = "num" /\ c.rows[n].v.k = "num"
        /\ One <= c.rows[n].u.x /\ c.rows[n].u.x <= 2 * One
        /\ 0 <= c.rows[n].v.x /\ c.rows[n].v.x <= One}

(* C24: with wrap_u, the rows that the range filter leaves are the rows    *)
(* with raw u in [1, 2] and v in [0, 1], in their order, each with u - 1   *)
(* for u and its v unchanged; no row with raw u < 1 is among them.         *)
C24_WrapKeepsOneToTwo ==
    (opts.wrap_u /\ pc = "drop_duplicates") =>
        LET idx == Ascending(WrapKept(csv))
        IN  /\ df.rows = [k \in DOMAIN idx |->
                            NRow(csv.rows[idx[k]].u.x - One,
                                 csv.rows[idx[k]].v.x)]
            /\ \A n \in DOMAIN csv.rows :
                  (csv.rows[n].u.k = "num" /\ csv.rows[n].u.x < One) =>
                      n \notin WrapKept(csv)

(* C24 witness: of two rows the wrap kept the one with u = 2.0 and dropped *)
(* the one with u = 0.0, both with v in range.                             *)
C24_Witness ==
    /\ opts.wrap_u
    /\ pc = "drop_duplicates"
    /\ Len(csv.rows) = 2
    /\ csv.rows[1].u = Num(0) /\ csv.rows[1].v = Num(0)
    /\ csv.rows[2].u = Num(2 * One)
    /\ df.rows = <<NRow(One, 0)>>

-----------------------------------------------------------------------------
(* C25: in every iteration of the loop the next point joins the current    *)
(* run if and only if it is closer than the threshold to the point just    *)
(* before it in the sequence; otherwise it starts a new run.  The first    *)
(* point of the run and the other points have no part in it.               *)
C25_JoinByPredecessorOnly ==
    [][(pc = "seg_loop" /\ i < Len(points)) =>
          IF Closer(points[i], points[i + 1], opts)
          THEN /\ current_segment' = Append(current_segment, points[i + 1])
               /\ segments' = segments
          ELSE current_segment' = <<points[i + 1]>>]_vars

(* C25 witness: a Segment was written whose last point is not closer than  *)
(* the threshold to its first point.                                       *)
C25_Witness ==
    /\ pc = "exited"
    /\ file.kind = "document"
    /\ \E n \in DOMAIN segments :
          /\ Len(segments[n]) >= 3
          /\ ~Closer(segments[n][1], segments[n][Len(segments[n])], opts)

-----------------------------------------------------------------------------
(* rgs is a sequence of index ranges of pts, each of 2 indices or more,    *)
(* each wholly before the next, and runs[n] is pts over rgs[n].            *)
DisjointRangesOf(runs, rgs, pts) ==
    /\ DOMAIN rgs = DOMAIN runs
    /\ \A n \in DOMAIN rgs :
          /\ 1 <= rgs[n][1] /\ rgs[n][1] < rgs[n][2] /\ rgs[n][2] <= Len(pts)
          /\ runs[n] = SubSeq(pts, rgs[n][1], rgs[n][2])
          /\ n > 1 => rgs[n - 1][2] < rgs[n][1]

(* Where the run r lies in pts; <<0, 0>> if nowhere. *)
RangeOf(r, pts) ==
    LET found == {rg \in (DOMAIN pts) \X (DOMAIN pts) :
                     rg[1] <= rg[2] /\ r = SubSeq(pts, rg[1], rg[2])}
    IN  IF found = {} THEN <<0, 0>> ELSE CHOOSE rg \in found : TRUE

(* How many times the point p is a vertex of the runs. *)
Occurrences(p, runs) ==
    Cardinality({nk \in (DOMAIN runs) \X (1..Len(Flatten(runs))) :
                    nk[2] <= Len(runs[nk[1]]) /\ runs[nk[1]][nk[2]] = p})

(* C26: the Segments are pairwise disjoint contiguous index ranges of the  *)
(* points, in ascending order; a point is a vertex at most once in all;    *)
(* the vertices are no more than the points.  While the loop runs the same *)
(* holds of the Segments closed so far, and the open run lies after them.  *)
C26_SegmentsDisjoint ==
    /\ SegDone =>
          /\ DisjointRangesOf(segments,
                [n \in DOMAIN segments |-> RangeOf(segments[n], points)],
                points)
          /\ \A k \in DOMAIN points : Occurrences(points[k], segments) <= 1
          /\ Len(Flatten(segments)) <= Len(points)
          /\ Len(Flatten(svg.polylines)) <= Len(points)
    /\ pc = "seg_loop" =>
          LET rgs == [n \in DOMAIN segments |-> RangeOf(segments[n], points)]
          IN  /\ DisjointRangesOf(segments, rgs, points)
              /\ current_segment =
                    SubSeq(points, i - Len(current_segment) + 1, i)
              /\ segments # << >> =>
                    rgs[Len(rgs)][2] < i - Len(current_segment) + 1

(* C26 witness: two Segments were written, of points 1-2 and points 3-4.   *)
C26_Witness ==
    /\ pc = "exited"
    /\ file.kind = "document"
    /\ Len(points) = 4
    /\ segments = <<SubSeq(points, 1, 2), SubSeq(points, 3, 4)>>

-----------------------------------------------------------------------------
(* The place of each step in the order of the stages. *)
StageRank(p) ==
    CASE p = "read_csv" -> 0
      [] p = "check_columns" -> 1
      [] p = "wrap" -> 2
      [] p = "dropna" -> 3
      [] p = "filter" -> 4
      [] p = "drop_duplicates" -> 5
      [] p = "to_points" -> 6
      [] p = "check_empty" -> 7
      [] p = "seg_init" -> 8
      [] p = "seg_loop" -> 9
      [] p = "build_svg" -> 10
      [] p = "write" -> 11
      [] p = "print_written" -> 12
      [] p \in {"main_return", "main_except"} -> 13
      [] p = "exited" -> 14

(* C27: every step moves to a later stage, so that the stages come in the  *)
(* order schema check, wrap, drop missing, range filter, de-duplication,   *)
(* device mapping, segmentation, serialization, write, each entered at     *)
(* most once; only the loop of the segmentation stays in its stage, and    *)
(* then it moves on to the next point.  The segmentation works on the      *)
(* points of the de-duplicated in-range samples, and the write is reached  *)
(* only with columns u and v present and at least one point.               *)
C27_StageOrder ==
    /\ [][/\ StageRank(pc') >= StageRank(pc)
          /\ StageRank(pc') = StageRank(pc) =>
                pc = "seg_loop" /\ i' = i + 1 /\ points' = points]_vars
    /\ [](pc \in {"seg_init", "seg_loop"} =>
            LET first == SamplesAt(csv, opts, FirstOccurrences(csv, opts))
            IN  /\ points = [k \in DOMAIN first |-> Device(first[k], opts)]
                /\ \A k \in DOMAIN first : InUnitSquare(first[k]))
    /\ [](pc \in {"write", "print_written"} =>
            /\ {"u", "v"} \subseteq csv.cols
            /\ Len(points) >= 1)

(* C27 witness: a run with the wrap went through every stage and wrote a   *)
(* document with a Segment.                                                *)
C27_Witness ==
    /\ pc = "exited"
    /\ opts.wrap_u
    /\ file.kind = "document"
    /\ Len(points) >= 2
    /\ \E n \in DOMAIN stdout : stdout[n].text = "SVG written to"

-----------------------------------------------------------------------------
Warned ==
    \E n \in DOMAIN stdout :
        stdout[n].text = "Warning: No valid data points found. SVG not created."

(* C28: a run that has points but no Segment builds a document without     *)
(* polylines, writes it and ends as a success, status 0, with the line of  *)
(* success and no warning, unless the write itself fails; the warning is   *)
(* printed only by runs that have no point.                                *)
C28_NoSegmentStillWritten ==
    /\ (SegDone /\ segments = << >>) =>
          /\ ~Warned
          /\ pc # "build_svg" => svg.built /\ svg.polylines = << >>
          /\ (pc \in {"print_written", "main_return", "exited"}
                /\ exc = "none") => file = Document(svg)
          /\ (pc \in {"main_return", "exited"} /\ exc = "none") =>
                stdout = <<Msg("SVG written to", {}, {}, "none")>>
          /\ (pc = "exited" /\ exc = "none") => exit_status = 0
    /\ Warned => points = << >> /\ pc \in {"main_return", "exited"}

(* C28 witness: two points farther apart than the threshold; a document    *)
(* without polylines was written and the run ended with status 0.          *)
C28_Witness ==
    /\ pc = "exited"
    /\ exit_status = 0
    /\ Len(points) = 2
    /\ segments = << >>
    /\ file.kind = "document"
    /\ file.doc.polylines = << >>

-----------------------------------------------------------------------------
Succeeded == \E n \in DOMAIN stdout : stdout[n].text = "SVG written to"

(* C29: the process ends with status 1 if and only if csv_to_svg raised,   *)
(* and with status 0 otherwise; a run on a dataset without column u or v,  *)
(* a run that is left without points and a run that wrote its document     *)
(* all return to main in the same way and end with status 0.               *)
C29_ExitStatus ==
    /\ pc = "exited" =>
          /\ exit_status \in {0, 1}
          /\ exit_status = 1 <=> exc # "none"
          /\ (SchemaViolation \/ Warned \/ Succeeded) =>
                exit_status = 0 /\ exc = "none"
          /\ exit_status = 0 => (SchemaViolation \/ Warned \/ Succeeded)
    /\ pc = "main_return" =>
          /\ exc = "none"
          /\ SchemaViolation \/ Warned \/ Succeeded
    /\ pc = "main_except" => exc # "none"

(* C29 witness: a dataset with column u alone ended with status 0 and no   *)
(* exception.                                                              *)
C29_Witness ==
    /\ pc = "exited"
    /\ csv.status = "ok"
    /\ csv.cols = {"u"}
    /\ exit_status = 0
    /\ exc = "none"

-----------------------------------------------------------------------------
(* a is b from some index on, for the length of a *)
ContiguousPart(a, b) ==
    \E s \in 0..(Len(b) - Len(a)) : a = SubSeq(b, s + 1, s + Len(a))

(* Every run of fine is a contiguous part of one run of coarse. *)
Refines(fine, coarse) ==
    \A n \in DOMAIN fine :
        \E m \in DOMAIN coarse : ContiguousPart(fine[n], coarse[m])

(* The values of max_dist that are compared, in hundredths. *)
Dists == {-5, 0, 2, 3, 5, 6}

WithDist(d) == [opts EXCEPT !.max_dist = d]

(* C30: when the segmentation is over, for every d1 <= max_dist <= d2 the  *)
(* Segments of the same points under d1 are contiguous parts of the        *)
(* Segments of the run, and these are contiguous parts of the Segments     *)
(* under d2, so that a point that is emitted under the smaller value is    *)
(* emitted under the larger; and with max_dist <= 0 there is no Segment.   *)
C30_MonotoneInMaxDist ==
    (pc = "build_svg" /\ opts.width > 0) =>
        /\ \A d \in Dists :
              /\ d <= opts.max_dist =>
                    Refines(RefSegments(points, WithDist(d)), segments)
              /\ d >= opts.max_dist =>
                    Refines(segments, RefSegments(points, WithDist(d)))
              /\ d <= 0 => SegmentPoints(points, WithDist(d)) = << >>
        /\ opts.max_dist <= 0 => segments = << >>

(* C30 witness: under max_dist 0.03 the run made one Segment of 2 points,  *)
(* which is a part of the one Segment of 4 points under 0.05.              *)
C30_Witness ==
    /\ pc = "build_svg"
    /\ opts.max_dist = 3
    /\ Len(points) = 4
    /\ Len(segments) = 1
    /\ Len(segments[1]) = 2
    /\ RefSegments(points, WithDist(5)) = <<points>>

====
